---- MODULE Spec2Model ----
(***************************************************************************)
(* State-machine model of the quiz canister in                             *)
(* src/icp_rust_boilerplate_backend/src/lib.rs.                            *)
(*                                                                         *)
(* The canister keeps two stable structures: ID_COUNTER (a Cell<u64>) and  *)
(* STORAGE (a StableBTreeMap<u64, Quiz>).  Every entry point runs to       *)
(* completion as one message; a panic (expect / assert!) traps the message *)
(* and the runtime discards every state change the message made, so a      *)
(* trapped request is modelled as a step that only records the trap.       *)
(***************************************************************************)
EXTENDS Integers, Sequences, FiniteSets, TLC

VARIABLES ID_COUNTER, STORAGE, now, result, issued, deleted

vars == <<ID_COUNTER, STORAGE, now, result, issued, deleted>>

(***************************************************************************)
(* Bounds of the model.                                                    *)
(***************************************************************************)
\* create_quiz is explored while the counter is below MaxId
MaxId == 2
\* the canister clock takes the values 0..MaxTime
MaxTime == 1
\* answer_quiz is explored while the chosen count is below MaxVotes
MaxVotes == 1

(***************************************************************************)
(* Inputs of the requests.                                                 *)
(***************************************************************************)
Callers == {"alice", "bob"}

\* "c" is a label of no payload
Labels == {"", "a", "b", "c"}

\* Two payloads that pass validation: one with two distinct labels, one
\* with an empty label and a repeated label (it shares "b" with the first).
\* Two that fail it: a single option, and a question under 10 characters.
Payloads ==
    { [question |-> "Pick a color", options |-> <<"a", "b">>],
      [question |-> "Pick a fruit", options |-> <<"b", "", "b">>],
      [question |-> "Pick a color", options |-> <<"a">>],
      [question |-> "Short?",       options |-> <<"a", "b">>] }

Ids == 0..MaxId

(***************************************************************************)
(* Option<T>: None is the empty sequence, Some(v) a sequence of length 1.  *)
(***************************************************************************)
None == <<>>

Some(v) == <<v>>

(***************************************************************************)
(* QuizPayload validation: question of length >= 10, options of length     *)
(* >= 2 (the number of entries of the Vec).                                *)
(***************************************************************************)
validate(payload) ==
    /\ Len(payload.question) >= 10
    /\ Len(payload.options) >= 2

(***************************************************************************)
(* HashMap<String, u32>::insert: adds the key or overwrites its value.     *)
(***************************************************************************)
hashmap_insert(m, k, v) ==
    [x \in (DOMAIN m) \cup {k} |-> IF x = k THEN v ELSE m[x]]

(***************************************************************************)
(* The loop `for option in &payload.options { answers.insert(option, 0) }` *)
(* over the first n entries of options, starting from HashMap::new().      *)
(***************************************************************************)
RECURSIVE zero_answers_upto(_, _)
zero_answers_upto(options, n) ==
    IF n = 0
    THEN [x \in {} |-> 0]
    ELSE hashmap_insert(zero_answers_upto(options, n - 1), options[n], 0)

zero_answers(options) ==
    zero_answers_upto(options, Len(options))

(***************************************************************************)
(* Vec<String>::contains                                                   *)
(***************************************************************************)
contains(options, option) ==
    \E i \in 1..Len(options) : options[i] = option

(***************************************************************************)
(* `if let Some(answer_count) = quiz.answers.get_mut(&option)              *)
(*      { *answer_count += 1; }`                                           *)
(***************************************************************************)
count_twice(answers, option) ==
    IF option \in DOMAIN answers
    THEN [answers EXCEPT ![option] = @ + 2]
    ELSE answers

count_lost(answers, option) ==
    answers

count_answer(answers, option) ==
    IF option \in DOMAIN answers
    THEN [answers EXCEPT ![option] = @ + 1]
    ELSE answers

(***************************************************************************)
(* The value the counter cell is set to: current_value + 1.                *)
(***************************************************************************)
counter_stuck(current_value) ==
    current_value

counter_wraps(current_value) ==
    (current_value + 1) % 2

next_counter(current_value) ==
    current_value + 1

(***************************************************************************)
(* The result of Cell::set(value) on a cell holding current_value: the     *)
(* value the cell held before the call.  create_quiz takes it as the id.   *)
(***************************************************************************)
cell_set_returns_new(current_value, value) ==
    value

cell_set(current_value, value) ==
    current_value

(***************************************************************************)
(* `quiz.author == caller().to_string()`, asserted by update_quiz and      *)
(* delete_quiz.                                                            *)
(***************************************************************************)
is_author_anyone(quiz, caller) ==
    TRUE

is_author(quiz, caller) ==
    quiz.author = caller

(***************************************************************************)
(* StableBTreeMap operations on STORAGE.                                   *)
(***************************************************************************)
_get_quiz(id) ==
    IF id \in DOMAIN STORAGE THEN Some(STORAGE[id]) ELSE None

do_insert_at_counter(quiz) ==
    [k \in (DOMAIN STORAGE) \cup {ID_COUNTER} |->
        IF k = ID_COUNTER THEN quiz ELSE STORAGE[k]]

do_insert(quiz) ==
    [k \in (DOMAIN STORAGE) \cup {quiz.id} |->
        IF k = quiz.id THEN quiz ELSE STORAGE[k]]

remove_keeps(id) ==
    STORAGE

remove_all(id) ==
    [k \in {} |-> STORAGE[k]]

remove(id) ==
    [k \in (DOMAIN STORAGE) \ {id} |-> STORAGE[k]]

(***************************************************************************)
(* The Quiz built by create_quiz.                                          *)
(***************************************************************************)
new_quiz_touched(id, caller, payload, t) ==
    [id         |-> id,
     author     |-> caller,
     question   |-> payload.question,
     options    |-> payload.options,
     answers    |-> zero_answers(payload.options),
     created_at |-> t,
     updated_at |-> Some(t)]

new_quiz(id, caller, payload, t) ==
    [id         |-> id,
     author     |-> caller,
     question   |-> payload.question,
     options    |-> payload.options,
     answers    |-> zero_answers(payload.options),
     created_at |-> t,
     updated_at |-> None]

(***************************************************************************)
(* The Quiz written back by update_quiz.                                   *)
(***************************************************************************)
edited_quiz_keeps_counts(quiz, payload, t) ==
    [quiz EXCEPT !.question   = payload.question,
                 !.options    = payload.options,
                 !.answers    = [l \in DOMAIN zero_answers(payload.options) |->
                                    IF l \in DOMAIN quiz.answers
                                    THEN quiz.answers[l] ELSE 0],
                 !.updated_at = Some(t)]

edited_quiz_keeps_answers(quiz, payload, t) ==
    [quiz EXCEPT !.question   = payload.question,
                 !.options    = payload.options,
                 !.updated_at = Some(t)]

edited_quiz_restamps(quiz, payload, t) ==
    [quiz EXCEPT !.question   = payload.question,
                 !.options    = payload.options,
                 !.answers    = zero_answers(payload.options),
                 !.created_at = t,
                 !.updated_at = Some(t)]

edited_quiz(quiz, payload, t) ==
    [quiz EXCEPT !.question   = payload.question,
                 !.options    = payload.options,
                 !.answers    = zero_answers(payload.options),
                 !.updated_at = Some(t)]

(***************************************************************************)
(* The Quiz written back by answer_quiz.                                   *)
(***************************************************************************)
answered_quiz_unstamped(quiz, option, t) ==
    [quiz EXCEPT !.answers    = count_answer(quiz.answers, option)]

answered_quiz(quiz, option, t) ==
    [quiz EXCEPT !.answers    = count_answer(quiz.answers, option),
                 !.updated_at = Some(t)]

(***************************************************************************)
(* The reply of the last request: the entry point, the id it was about,    *)
(* the outcome (Ok / Err / Some / Trap), the error variant and the         *)
(* returned records.                                                       *)
(***************************************************************************)
Reply(op, id, status, err, value) ==
    [op     |-> op,
     id     |-> id,
     status |-> status,
     err    |-> err,
     value  |-> value]

Init ==
    /\ ID_COUNTER = 0
    /\ STORAGE = [k \in {} |-> 0]
    /\ now = 0
    /\ result = Reply("init", 0, "Ok", "", <<>>)
    /\ issued = <<>>
    /\ deleted = {}

(***************************************************************************)
(* The canister clock read by time(): it never goes backwards.             *)
(***************************************************************************)
Tick ==
    /\ now < MaxTime
    /\ now' = now + 1
    /\ UNCHANGED <<ID_COUNTER, STORAGE, result, issued, deleted>>

(***************************************************************************)
(* get_all_quiz: the records in ascending key order, or NotFound when      *)
(* there is none.                                                          *)
(***************************************************************************)
RECURSIVE iter_collect_descending(_)
iter_collect_descending(keys) ==
    IF keys = {}
    THEN <<>>
    ELSE LET k == CHOOSE x \in keys : \A y \in keys : x >= y
         IN  <<STORAGE[k]>> \o iter_collect_descending(keys \ {k})

RECURSIVE iter_collect(_)
iter_collect(keys) ==
    IF keys = {}
    THEN <<>>
    ELSE LET k == CHOOSE x \in keys : \A y \in keys : x <= y
         IN  <<STORAGE[k]>> \o iter_collect(keys \ {k})

get_all_quiz ==
    /\ LET quizzes == iter_collect(DOMAIN STORAGE)
       IN  result' =
             IF Len(quizzes) > 0
             THEN Reply("get_all_quiz", 0, "Ok", "", quizzes)
             ELSE Reply("get_all_quiz", 0, "Err", "NotFound", <<>>)
    /\ UNCHANGED <<ID_COUNTER, STORAGE, now, issued, deleted>>

get_quiz(id) ==
    /\ result' =
         IF _get_quiz(id) # None
         THEN Reply("get_quiz", id, "Ok", "", _get_quiz(id))
         ELSE Reply("get_quiz", id, "Err", "NotFound", <<>>)
    /\ UNCHANGED <<ID_COUNTER, STORAGE, now, issued, deleted>>

(***************************************************************************)
(* create_quiz: validation failure traps; otherwise the id is the value    *)
(* the counter cell held (Cell::set returns the previous value), the cell  *)
(* is set to that value plus one, and the new record is inserted.          *)
(***************************************************************************)
create_quiz(caller, payload) ==
    /\ ID_COUNTER < MaxId
    /\ IF ~validate(payload)
       THEN /\ result' = Reply("create_quiz", 0, "Trap", "", <<>>)
            /\ UNCHANGED <<ID_COUNTER, STORAGE, issued>>
       ELSE LET current_value == ID_COUNTER
                id   == cell_set(current_value, next_counter(current_value))
                quiz == new_quiz(id, caller, payload, now)
            IN  /\ ID_COUNTER' = next_counter(current_value)
                /\ STORAGE' = do_insert(quiz)
                /\ result' = Reply("create_quiz", id, "Some", "", <<quiz>>)
                /\ issued' = Append(issued, id)
    /\ UNCHANGED <<now, deleted>>

(***************************************************************************)
(* update_quiz                                                             *)
(***************************************************************************)
update_quiz(caller, id, payload) ==
    /\ IF ~validate(payload)
       THEN /\ result' = Reply("update_quiz", id, "Trap", "", <<>>)
            /\ UNCHANGED STORAGE
       ELSE LET quiz_option == _get_quiz(id)
            IN  IF quiz_option = None
                THEN /\ result' = Reply("update_quiz", id, "Err", "NotFound", <<>>)
                     /\ UNCHANGED STORAGE
                ELSE IF ~is_author(quiz_option[1], caller)
                THEN /\ result' = Reply("update_quiz", id, "Trap", "", <<>>)
                     /\ UNCHANGED STORAGE
                ELSE LET quiz == edited_quiz(quiz_option[1], payload, now)
                     IN  /\ STORAGE' = do_insert(quiz)
                         /\ result' = Reply("update_quiz", id, "Ok", "", <<quiz>>)
    /\ UNCHANGED <<ID_COUNTER, now, issued, deleted>>

(***************************************************************************)
(* delete_quiz: both asserts trap; otherwise the entry is removed.         *)
(***************************************************************************)
delete_quiz(caller, id) ==
    /\ LET quiz == _get_quiz(id)
       IN  IF quiz = None
           THEN /\ result' = Reply("delete_quiz", id, "Trap", "", <<>>)
                /\ UNCHANGED <<STORAGE, deleted>>
           ELSE IF ~is_author(quiz[1], caller)
           THEN /\ result' = Reply("delete_quiz", id, "Trap", "", <<>>)
                /\ UNCHANGED <<STORAGE, deleted>>
           ELSE /\ STORAGE' = remove(id)
                /\ result' = Reply("delete_quiz", id, "Ok", "", quiz)
                /\ deleted' = deleted \cup {id}
    /\ UNCHANGED <<ID_COUNTER, now, issued>>

(***************************************************************************)
(* answer_quiz                                                             *)
(***************************************************************************)
answer_quiz(id, option) ==
    /\ LET quiz_option == _get_quiz(id)
       IN  IF quiz_option = None
           THEN /\ result' = Reply("answer_quiz", id, "Err", "NotFound", <<>>)
                /\ UNCHANGED STORAGE
           ELSE IF contains(quiz_option[1].options, option)
           THEN LET quiz == answered_quiz(quiz_option[1], option, now)
                IN  /\ quiz_option[1].answers[option] < MaxVotes
                    /\ STORAGE' = do_insert(quiz)
                    /\ result' = Reply("answer_quiz", id, "Ok", "", <<quiz>>)
           ELSE /\ result' = Reply("answer_quiz", id, "Err", "NotFound", <<>>)
                /\ UNCHANGED STORAGE
    /\ UNCHANGED <<ID_COUNTER, now, issued, deleted>>

Next ==
    \/ Tick
    \/ get_all_quiz
    \/ \E id \in Ids : get_quiz(id)
    \/ \E caller \in Callers, payload \in Payloads : create_quiz(caller, payload)
    \/ \E caller \in Callers, id \in Ids, payload \in Payloads : update_quiz(caller, id, payload)
    \/ \E caller \in Callers, id \in Ids : delete_quiz(caller, id)
    \/ \E id \in Ids, option \in Labels : answer_quiz(id, option)

Spec == Init /\ [][Next]_vars

(***************************************************************************)
(* Helpers of the properties.                                              *)
(***************************************************************************)
LabelSet(options) == {options[i] : i \in 1..Len(options)}

Distinct(options) ==
    \A i, j \in 1..Len(options) : i # j => options[i] # options[j]

AllZero(answers) == \A l \in DOMAIN answers : answers[l] = 0

(***************************************************************************)
(* C1: the ids returned by the successful create_quiz calls of a run,      *)
(* whatever edits, votes, deletes and reads come between them, are         *)
(* pairwise distinct.                                                      *)
(***************************************************************************)
C1_IssuedIdsDistinct ==
    \A i, j \in 1..Len(issued) : i # j => issued[i] # issued[j]

\* two ids were issued, the second one after a delete
C1_Witness ==
    /\ Len(issued) >= 2
    /\ deleted # {}
    /\ result.op = "create_quiz"
    /\ result.status = "Some"

(***************************************************************************)
(* C2: once delete_quiz(id) has succeeded, id is never again a key of the  *)
(* store, get_quiz(id) answers NotFound, and no create_quiz returns id.    *)
(***************************************************************************)
C2_DeletedIsTerminal ==
    \A id \in deleted :
        /\ id \notin DOMAIN STORAGE
        /\ (result.op = "get_quiz" /\ result.id = id)
              => (result.status = "Err" /\ result.err = "NotFound")
        /\ (result.op = "create_quiz" /\ result.status = "Some")
              => result.id # id

\* a create succeeded after a delete: the new record is the only live one
C2_Witness ==
    /\ deleted # {}
    /\ result.op = "create_quiz"
    /\ result.status = "Some"
    /\ DOMAIN STORAGE = {result.id}

(***************************************************************************)
(* C3: the id a successful create_quiz allocates is not the key of a live  *)
(* record when the call is made: the create overwrites nothing, leaves     *)
(* every live record as it was and adds exactly one record.                *)
(***************************************************************************)
C3_CreateNeverOverwrites ==
    [][\A caller \in Callers, payload \in Payloads :
          (create_quiz(caller, payload) /\ result'.status = "Some") =>
             /\ result'.id \notin DOMAIN STORAGE
             /\ DOMAIN STORAGE' = (DOMAIN STORAGE) \cup {result'.id}
             /\ Cardinality(DOMAIN STORAGE') = Cardinality(DOMAIN STORAGE) + 1
             /\ \A k \in DOMAIN STORAGE : STORAGE'[k] = STORAGE[k]]_vars

\* a create succeeded while another record was live
C3_Witness ==
    /\ result.op = "create_quiz"
    /\ result.status = "Some"
    /\ Cardinality(DOMAIN STORAGE) = 2

(***************************************************************************)
(* C4: in every reachable state the keys of the answers of every live      *)
(* record are exactly the labels of its options.                           *)
(***************************************************************************)
C4_AnswersKeysAreOptions ==
    \A k \in DOMAIN STORAGE :
        DOMAIN STORAGE[k].answers = LabelSet(STORAGE[k].options)

\* a record was edited while another record holds a vote
C4_Witness ==
    /\ result.op = "update_quiz"
    /\ result.status = "Ok"
    /\ \E k \in DOMAIN STORAGE :
          /\ k # result.id
          /\ ~AllZero(STORAGE[k].answers)

(***************************************************************************)
(* C5: a successful answer_quiz(id, option) adds exactly 1 to the count of *)
(* option, leaves the other counts, the question and the options as they   *)
(* were, sets updated_at to the time of the call, and stores the record it *)
(* returns.                                                                *)
(***************************************************************************)
C5_VoteAddsOne ==
    [][\A id \in Ids, option \in Labels :
          (answer_quiz(id, option) /\ result'.status = "Ok") =>
             LET old == STORAGE[id]
                 new == STORAGE'[id]
             IN  /\ DOMAIN new.answers = DOMAIN old.answers
                 /\ option \in DOMAIN old.answers
                 /\ new.answers[option] = old.answers[option] + 1
                 /\ \A l \in (DOMAIN old.answers) \ {option} :
                        new.answers[l] = old.answers[l]
                 /\ new.question = old.question
                 /\ new.options = old.options
                 /\ new.updated_at = Some(now)
                 /\ result'.value = <<new>>]_vars

\* a vote succeeded on a record whose options repeat the chosen label
C5_Witness ==
    /\ result.op = "answer_quiz"
    /\ result.status = "Ok"
    /\ result.value[1].options = <<"b", "", "b">>
    /\ result.value[1].answers["b"] = 1

(***************************************************************************)
(* C6: answer_quiz(id, option) on a live record whose options do not       *)
(* contain option returns the InvalidChoice error and changes neither the  *)
(* store nor the counter.                                                  *)
(***************************************************************************)
C6_UnknownLabelIsInvalidChoice ==
    [][\A id \in Ids, option \in Labels :
          ( /\ answer_quiz(id, option)
            /\ id \in DOMAIN STORAGE
            /\ ~contains(STORAGE[id].options, option) ) =>
             /\ result'.status = "Err"
             /\ result'.err = "InvalidChoice"
             /\ STORAGE' = STORAGE
             /\ ID_COUNTER' = ID_COUNTER]_vars

(***************************************************************************)
(* C7: answer_quiz(id, "") on a live record always ends in an error and    *)
(* leaves the store unchanged.                                             *)
(***************************************************************************)
C7_EmptyLabelRejected ==
    [][\A id \in Ids :
          (answer_quiz(id, "") /\ id \in DOMAIN STORAGE) =>
             /\ result'.status = "Err"
             /\ STORAGE' = STORAGE]_vars

(***************************************************************************)
(* C8: a successful update_quiz(id, payload) stores the question and the   *)
(* options of the payload and a count of zero for every label of the new   *)
(* options, whatever the counts were before.                               *)
(***************************************************************************)
C8_EditResetsTally ==
    [][\A caller \in Callers, id \in Ids, payload \in Payloads :
          (update_quiz(caller, id, payload) /\ result'.status = "Ok") =>
             LET new == STORAGE'[id]
             IN  /\ new.question = payload.question
                 /\ new.options = payload.options
                 /\ DOMAIN new.answers = LabelSet(payload.options)
                 /\ AllZero(new.answers)
                 /\ result'.value = <<new>>]_vars

\* an edit succeeded and put the options that share "b" with the others
C8_Witness ==
    /\ result.op = "update_quiz"
    /\ result.status = "Ok"
    /\ result.value[1].options = <<"b", "", "b">>
    /\ result.value[1].created_at < now

(***************************************************************************)
(* C9: a successful create_quiz(payload) returns a record with the         *)
(* question and options of the payload, a zero count for every label of    *)
(* the options and no updated_at, and the store holds that record under    *)
(* the returned id (what get_quiz of that id reads).                       *)
(***************************************************************************)
C9_CreateZeroTally ==
    [][\A caller \in Callers, payload \in Payloads :
          (create_quiz(caller, payload) /\ result'.status = "Some") =>
             LET quiz == result'.value[1]
             IN  /\ quiz.id = result'.id
                 /\ quiz.question = payload.question
                 /\ quiz.options = payload.options
                 /\ DOMAIN quiz.answers = LabelSet(payload.options)
                 /\ AllZero(quiz.answers)
                 /\ quiz.updated_at = None
                 /\ quiz.id \in DOMAIN STORAGE'
                 /\ STORAGE'[quiz.id] = quiz]_vars

\* a create succeeded at a time other than 0
C9_Witness ==
    /\ result.op = "create_quiz"
    /\ result.status = "Some"
    /\ result.value[1].created_at > 0
    /\ result.value[1].options = <<"a", "b">>

(***************************************************************************)
(* C10: create_quiz rejects a payload whose options have fewer than 2      *)
(* entries or repeat a label, and a rejected create stores nothing.        *)
(***************************************************************************)
C10_CreateRejectsBadOptions ==
    [][\A caller \in Callers, payload \in Payloads :
          ( /\ create_quiz(caller, payload)
            /\ (Len(payload.options) < 2 \/ ~Distinct(payload.options)) ) =>
             /\ result'.status = "Trap"
             /\ STORAGE' = STORAGE
             /\ ID_COUNTER' = ID_COUNTER]_vars

(***************************************************************************)
(* C11 as stated: on a fresh store (counter 0, empty map) the first        *)
(* successful create_quiz returns a record with id = 1.                    *)
(***************************************************************************)
C11_FirstIdIsOne ==
    Len(issued) >= 1 => issued[1] = 1

(***************************************************************************)
(* C11 as amended: on a fresh store the first successful create_quiz       *)
(* returns a record with id = 0, the seed of the counter, and leaves the   *)
(* counter at 1.                                                           *)
(***************************************************************************)
C11_FirstIdIsSeed ==
    /\ Len(issued) >= 1 => issued[1] = 0
    /\ (Len(issued) = 1 /\ result.op = "create_quiz" /\ result.status = "Some")
          => /\ result.id = 0
             /\ result.value[1].id = 0
             /\ ID_COUNTER = 1

\* the first create has just succeeded
C11_Witness ==
    /\ Len(issued) = 1
    /\ result.op = "create_quiz"
    /\ result.status = "Some"
    /\ deleted = {}

(***************************************************************************)
(* C12: get_all_quiz answers the NotFound ("no quiz") error exactly when   *)
(* the store is empty; otherwise it returns every live record exactly      *)
(* once, in ascending id order, as the store holds them at the call.       *)
(***************************************************************************)
C12_ListIsLiveSetAscending ==
    result.op = "get_all_quiz" =>
        /\ (result.status = "Err") <=> (DOMAIN STORAGE = {})
        /\ result.status = "Err" => (result.err = "NotFound" /\ result.value = <<>>)
        /\ result.status \in {"Ok", "Err"}
        /\ result.status = "Ok" =>
              /\ Len(result.value) = Cardinality(DOMAIN STORAGE)
              /\ \A k \in DOMAIN STORAGE :
                    \E i \in 1..Len(result.value) : result.value[i] = STORAGE[k]
              /\ \A i, j \in 1..Len(result.value) :
                    i < j => result.value[i].id < result.value[j].id

\* a listing of two live records
C12_Witness ==
    /\ result.op = "get_all_quiz"
    /\ result.status = "Ok"
    /\ Len(result.value) = 2

(***************************************************************************)
(* C13: delete_quiz(id) on an id with no live record returns a NotFound    *)
(* error result to the caller and leaves the store and the counter         *)
(* unchanged.                                                              *)
(***************************************************************************)
C13_DeleteAbsentIsNotFound ==
    [][\A caller \in Callers, id \in Ids :
          (delete_quiz(caller, id) /\ id \notin DOMAIN STORAGE) =>
             /\ result'.status = "Err"
             /\ result'.err = "NotFound"
             /\ STORAGE' = STORAGE
             /\ ID_COUNTER' = ID_COUNTER]_vars

(***************************************************************************)
(* The record at id is live before the step and, after it, is gone or has  *)
(* another question or other options.                                      *)
(***************************************************************************)
EditedOrRemoved(id) ==
    /\ id \in DOMAIN STORAGE
    /\ \/ id \notin DOMAIN STORAGE'
       \/ STORAGE'[id].question # STORAGE[id].question
       \/ STORAGE'[id].options # STORAGE[id].options

(***************************************************************************)
(* C14: only the author of a record edits or deletes it: update_quiz and   *)
(* delete_quiz by any other caller leave the store unchanged, and every    *)
(* step that removes a live record or changes its question or options is   *)
(* an update_quiz or delete_quiz of that id by the caller recorded as its  *)
(* author.                                                                 *)
(***************************************************************************)
C14_OnlyAuthorEditsOrDeletes ==
    [][/\ \A caller \in Callers, id \in DOMAIN STORAGE :
             ( /\ STORAGE[id].author # caller
               /\ \/ delete_quiz(caller, id)
                  \/ \E payload \in Payloads : update_quiz(caller, id, payload) )
             => STORAGE' = STORAGE
       /\ \A id \in DOMAIN STORAGE :
             EditedOrRemoved(id) =>
                \E caller \in Callers :
                   /\ caller = STORAGE[id].author
                   /\ \/ delete_quiz(caller, id)
                      \/ \E payload \in Payloads : update_quiz(caller, id, payload)]_vars

\* a delete_quiz of a live record was refused: its caller was not the author
C14_Witness ==
    /\ result.op = "delete_quiz"
    /\ result.status = "Trap"
    /\ result.id \in DOMAIN STORAGE
    /\ STORAGE[result.id].updated_at # None

(***************************************************************************)
(* C15: update_quiz or delete_quiz on a live record by a caller who is not *)
(* its author returns a NotAuthorized error result; the request never      *)
(* traps.                                                                  *)
(***************************************************************************)
C15_NonAuthorGetsNotAuthorized ==
    [][\A caller \in Callers, id \in DOMAIN STORAGE :
          ( /\ STORAGE[id].author # caller
            /\ \/ delete_quiz(caller, id)
               \/ \E payload \in Payloads : update_quiz(caller, id, payload) )
          => /\ result'.status = "Err"
             /\ result'.err = "NotAuthorized"]_vars

(***************************************************************************)
(* C16: the id, created_at and author of a live record never change: no    *)
(* step, and so no successful update_quiz or answer_quiz, alters them.     *)
(***************************************************************************)
C16_IdentityFieldsImmutable ==
    [][\A id \in (DOMAIN STORAGE) \cap (DOMAIN STORAGE') :
          /\ STORAGE'[id].id = STORAGE[id].id
          /\ STORAGE'[id].created_at = STORAGE[id].created_at
          /\ STORAGE'[id].author = STORAGE[id].author]_vars

\* a vote succeeded on a record at a later time than its creation
C16_Witness ==
    /\ result.op = "answer_quiz"
    /\ result.status = "Ok"
    /\ result.value[1].created_at < now
    /\ result.value[1].updated_at = Some(now)

(***************************************************************************)
(* The step is a successful update_quiz or answer_quiz of the record id.   *)
(***************************************************************************)
MutatedBy(id) ==
    /\ result'.status = "Ok"
    /\ \/ \E caller \in Callers, payload \in Payloads : update_quiz(caller, id, payload)
       \/ \E option \in Labels : answer_quiz(id, option)

(***************************************************************************)
(* C17: updated_at of a live record is absent exactly when no update_quiz  *)
(* or answer_quiz has succeeded on it since its creation: a record enters  *)
(* the store without updated_at, a successful update_quiz or answer_quiz   *)
(* sets it, and no other step changes it.  When present it is at least     *)
(* created_at and at most the clock.                                       *)
(***************************************************************************)
C17_UpdatedAtTracksMutation ==
    /\ [](\A id \in DOMAIN STORAGE :
             STORAGE[id].updated_at # None =>
                /\ STORAGE[id].updated_at[1] >= STORAGE[id].created_at
                /\ STORAGE[id].updated_at[1] <= now)
    /\ [][\A id \in DOMAIN STORAGE' :
             IF id \notin DOMAIN STORAGE
             THEN STORAGE'[id].updated_at = None
             ELSE IF MutatedBy(id)
             THEN STORAGE'[id].updated_at = Some(now)
             ELSE STORAGE'[id].updated_at = STORAGE[id].updated_at]_vars

\* one record never touched, one voted on after the clock advanced
C17_Witness ==
    /\ \E k \in DOMAIN STORAGE : STORAGE[k].updated_at = None
    /\ \E k \in DOMAIN STORAGE :
          /\ STORAGE[k].updated_at # None
          /\ STORAGE[k].updated_at[1] > STORAGE[k].created_at
          /\ ~AllZero(STORAGE[k].answers)

(***************************************************************************)
(* C18: every entry of the store maps its key k to a record whose id is k. *)
(***************************************************************************)
C18_KeyIsRecordId ==
    \A k \in DOMAIN STORAGE : STORAGE[k].id = k

\* two live records, the second one edited and then voted on
C18_Witness ==
    /\ DOMAIN STORAGE = {0, 1}
    /\ STORAGE[1].question = "Pick a fruit"
    /\ ~AllZero(STORAGE[1].answers)
    /\ STORAGE[0].updated_at # None

(***************************************************************************)
(* Every record with a key other than id is the same before and after the  *)
(* step, and no other key appears or disappears.                           *)
(***************************************************************************)
OthersUnchanged(id) ==
    \A k \in ((DOMAIN STORAGE) \cup (DOMAIN STORAGE')) \ {id} :
        /\ k \in DOMAIN STORAGE
        /\ k \in DOMAIN STORAGE'
        /\ STORAGE'[k] = STORAGE[k]

(***************************************************************************)
(* C19: update_quiz, answer_quiz and delete_quiz on id leave every record  *)
(* with another id and the id counter unchanged; get_quiz, get_all_quiz    *)
(* and every request that ends in an error or a trap leave the whole store *)
(* and the counter unchanged.                                              *)
(***************************************************************************)
C19_FrameOfRequests ==
    [][/\ \A id \in Ids :
             ( \/ \E caller \in Callers, payload \in Payloads :
                     update_quiz(caller, id, payload)
               \/ \E caller \in Callers : delete_quiz(caller, id)
               \/ \E option \in Labels : answer_quiz(id, option) )
             => (OthersUnchanged(id) /\ ID_COUNTER' = ID_COUNTER)
       /\ ( \/ get_all_quiz
            \/ \E id \in Ids : get_quiz(id)
            \/ result'.status \in {"Err", "Trap"} )
             => (STORAGE' = STORAGE /\ ID_COUNTER' = ID_COUNTER)]_vars

\* a delete succeeded while another record stays live
C19_Witness ==
    /\ result.op = "delete_quiz"
    /\ result.status = "Ok"
    /\ DOMAIN STORAGE # {}

(***************************************************************************)
(* The sum of the counts of a tally.                                       *)
(***************************************************************************)
RECURSIVE SumOver(_, _)
SumOver(answers, keys) ==
    IF keys = {}
    THEN 0
    ELSE LET l == CHOOSE x \in keys : TRUE
         IN  answers[l] + SumOver(answers, keys \ {l})

Total(answers) == SumOver(answers, DOMAIN answers)

(***************************************************************************)
(* C20: the sum of the counts of a live record is the number of            *)
(* answer_quiz calls that succeeded on it since its creation or its last   *)
(* successful update_quiz: it is 0 when the record enters the store and    *)
(* after a successful update_quiz, grows by exactly 1 with every           *)
(* successful answer_quiz on it, and no other step changes it.             *)
(***************************************************************************)
C20_TallySumCountsVotes ==
    [][\A id \in DOMAIN STORAGE' :
          IF id \notin DOMAIN STORAGE
          THEN Total(STORAGE'[id].answers) = 0
          ELSE IF /\ result'.status = "Ok"
                  /\ \E caller \in Callers, payload \in Payloads :
                        update_quiz(caller, id, payload)
          THEN Total(STORAGE'[id].answers) = 0
          ELSE IF /\ result'.status = "Ok"
                  /\ \E option \in Labels : answer_quiz(id, option)
          THEN Total(STORAGE'[id].answers) = Total(STORAGE[id].answers) + 1
          ELSE Total(STORAGE'[id].answers) = Total(STORAGE[id].answers)]_vars

\* a second vote succeeded on a record since its last edit
C20_Witness ==
    /\ result.op = "answer_quiz"
    /\ result.status = "Ok"
    /\ Total(result.value[1].answers) = 2
    /\ result.value[1].question = "Pick a fruit"

====
